---- MODULE Spec2Model ----
(***************************************************************************)
(* Model of parse.py: the ExtractorStateMachine that walks the markdown-it *)
(* token stream of the Kanboard API documents and accumulates the stub     *)
(* lines (stubs.pyi) and the OpenRPC method list (rpc.json), together with *)
(* the driver loop of the __main__ block.                                  *)
(*                                                                         *)
(* Python strings are TLA+ strings (TLC evaluates Len, \o and SubSeq on    *)
(* them), so substring, prefix and suffix tests are computed, not assumed. *)
(***************************************************************************)
EXTENDS Integers, Sequences, FiniteSets, TLC

VARIABLES
    sm,          \* the ExtractorStateMachine instance (its fields)
    stdout,      \* what print() has written so far
    pc,          \* position of the __main__ block
    stem,        \* fn.stem of the file being processed
    nfiles,      \* files the glob has yielded so far
    raised,      \* the exception that ended the run, "none" while running
    corpus,      \* the documents of this run: which tokens md.parse may yield
    md,          \* where md.parse stands in the block structure of the file
    nitems,      \* parameter descriptions consumed so far in this run
    last,        \* history: the token handled last in this file and the instance it met
    headings,    \* history: the heading texts consumed so far, with their file
    none_marked, \* history: a "none" marker was consumed for the method in progress
    emitted,     \* history: per appended method, what its finalize started from
    listed       \* history, kept in the runs over parameter lists: the parameters
                 \* derived from the items of the list begun last, and whether
                 \* it ended; forgotten with the token after the finalize that
                 \* appended the record

vars == <<sm, stdout, pc, stem, nfiles, raised, corpus, md, nitems, last, headings,
          none_marked, emitted, listed>>

(***************************************************************************)
(* Bounds of the model.                                                    *)
(***************************************************************************)
\* a run over outlines: files, headings consumed, Method Records appended
MaxFiles == 2
MaxHeadings == 2
MaxMethods == 2
\* a run over the details of methods: headings consumed and Method Records
\* appended, parameter descriptions consumed
MaxDetailMethods == 1
MaxParams == 2
\* a run over the type keywords: parameter descriptions consumed
MaxTypedParams == 1
\* nesting of the bullet lists of a file
MaxDepth == 2

(***************************************************************************)
(* Python str operations.                                                  *)
(***************************************************************************)
StartsWith(s, p) == Len(p) <= Len(s) /\ SubSeq(s, 1, Len(p)) = p

EndsWith(s, p) == Len(p) <= Len(s) /\ SubSeq(s, Len(s) - Len(p) + 1, Len(s)) = p

\* sub in s
Contains(s, sub) ==
    \E i \in 1..(Len(s) - Len(sub) + 1) : SubSeq(s, i, i + Len(sub) - 1) = sub

CharAt(s, i) == SubSeq(s, i, i)

Upper == <<"A", "B", "C", "D", "E", "F", "G", "H", "I", "J", "K", "L", "M",
           "N", "O", "P", "Q", "R", "S", "T", "U", "V", "W", "X", "Y", "Z">>

Lower == <<"a", "b", "c", "d", "e", "f", "g", "h", "i", "j", "k", "l", "m",
           "n", "o", "p", "q", "r", "s", "t", "u", "v", "w", "x", "y", "z">>

Digits == {"0", "1", "2", "3", "4", "5", "6", "7", "8", "9"}

IsUpper(c) == \E k \in 1..26 : Upper[k] = c

IsAlnum(c) == IsUpper(c) \/ (\E k \in 1..26 : Lower[k] = c) \/ c \in Digits

LowerChar(c) == IF IsUpper(c) THEN Lower[CHOOSE k \in 1..26 : Upper[k] = c] ELSE c

RECURSIVE lower(_)
\* str.lower() and str.casefold(), which agree on the ASCII text of the documents
lower(s) == IF s = "" THEN "" ELSE LowerChar(CharAt(s, 1)) \o lower(SubSeq(s, 2, Len(s)))

casefold(s) == lower(s)

IsSpace(c) == c \in {" ", "\t", "\n", "\r"}

RECURSIVE lstrip(_)
lstrip(s) == IF s # "" /\ IsSpace(CharAt(s, 1)) THEN lstrip(SubSeq(s, 2, Len(s))) ELSE s

RECURSIVE rstrip(_)
rstrip(s) ==
    IF s # "" /\ IsSpace(CharAt(s, Len(s))) THEN rstrip(SubSeq(s, 1, Len(s) - 1)) ELSE s

strip(s) == rstrip(lstrip(s))

RECURSIVE join(_, _)
\* sep.join(parts)
join(sep, parts) ==
    IF parts = <<>> THEN ""
    ELSE IF Len(parts) = 1 THEN parts[1]
    ELSE parts[1] \o sep \o join(sep, Tail(parts))

RECURSIVE SnakeFrom(_, _, _)
\* the words of s from position i on, lower-cased and joined by "_": a word
\* ends at a character that is no letter or digit and before a capital that
\* follows a small letter or digit; acc is the text produced so far
SnakeFrom(s, i, acc) ==
    IF i > Len(s) THEN acc
    ELSE LET c == CharAt(s, i)
             sep == IF acc = "" \/ EndsWith(acc, "_") THEN "" ELSE "_"
         IN  IF ~IsAlnum(c) THEN SnakeFrom(s, i + 1, acc \o sep)
             ELSE IF IsUpper(c) /\ i > 1 /\ ~IsUpper(CharAt(s, i - 1))
                  THEN SnakeFrom(s, i + 1, acc \o sep \o LowerChar(c))
             ELSE SnakeFrom(s, i + 1, acc \o LowerChar(c))

\* caseswitcher.to_snake
to_snake(s) == LET r == SnakeFrom(s, 1, "") IN
    IF EndsWith(r, "_") THEN SubSeq(r, 1, Len(r) - 1) ELSE r

(***************************************************************************)
(* markdown-it tokens: type, content and, for inline tokens, children.     *)
(***************************************************************************)
Token(type, content, children) ==
    [type |-> type, content |-> content, children |-> children]

Child(type, content) == [type |-> type, content |-> content]

Text(s) == Child("text", s)

StrongOpen == Child("strong_open", "")

StrongClose == Child("strong_close", "")

Inline(content, children) == Token("inline", content, children)

HeadingOpen == Token("heading_open", "", <<>>)

HeadingClose == Token("heading_close", "", <<>>)

BulletListOpen == Token("bullet_list_open", "", <<>>)

BulletListClose == Token("bullet_list_close", "", <<>>)

ParagraphClose == Token("paragraph_close", "", <<>>)

\* "## getMe": the inline token between heading_open and heading_close
HeadingText(s) == Inline(s, <<Text(s)>>)

\* "- Parameters:" followed by a nested list
ParametersLabel == Inline("Parameters:", <<Text("Parameters:")>>)

\* "- Parameters: none"
ParametersNone == Inline("Parameters: none", <<Text("Parameters: none")>>)

\* "- Parameters: **name** desc" on one line
InlineParam(name, desc) ==
    Inline("Parameters: **" \o name \o "**" \o desc,
           <<Text("Parameters: "), StrongOpen, Text(name), StrongClose, Text(desc)>>)

\* "    - **name** desc", one item of the nested list
ParamItem(name, desc) ==
    Inline("**" \o name \o "**" \o desc,
           <<StrongOpen, Text(name), StrongClose, Text(desc)>>)

\* "    - **none**"
NoneItem == Inline("**none**", <<StrongOpen, Text("none"), StrongClose>>)

\* "    - none"
PlainNoneItem == Inline("none", <<Text("none")>>)

\* an inline token with no children at all
EmptyInline == Inline("", <<>>)

\* an inline token whose only child is an image: no text child
ImageInline == Inline("![](a.png)", <<Child("image", "")>>)

\* "- Label: **value**"
Labelled(label, value) ==
    Inline(label \o " **" \o value \o "**",
           <<Text(label \o " "), StrongOpen, Text(value), StrongClose>>)

(***************************************************************************)
(* JSON values of the OpenRPC document.  A key that holds values of        *)
(* several JSON types (additionalItems, the members of enum) holds records.*)
(***************************************************************************)
JTrue == [json |-> "true"]

JFalse == [json |-> "false"]

JNull == [json |-> "null"]

JString(s) == [json |-> "\"" \o s \o "\""]

\* {}
EmptyDict == [k \in {} |-> ""]

\* the text the stub file starts with, abridged
_FILE_START == "\n# Copyright ...\nclass Client:\n    def __init__(...) -> None: ...\n\n"

_SCHEMAS ==
    ("list[str]" :> [type |-> "array", additionalItems |-> [type |-> "string"]])
    @@ ("str" :> [type |-> "string"])
    @@ ("int" :> [type |-> "integer"])
    @@ ("bool" :> [type |-> "boolean"])
    @@ ("dict" :> [type |-> "object"])
    @@ ("list" :> [type |-> "array", additionalItems |-> JTrue])

NORMAL == "NORMAL"

IN_HEADING == "IN_HEADING"

EXPECT_PARAM_LIST == "EXPECT_PARAM_LIST"

IN_PARAM_LIST == "IN_PARAM_LIST"

EXPECT_TITLE == "EXPECT_TITLE"

IN_RESULT_SUCCESS == "IN_RESULT_SUCCESS"

IN_RESULT_FAILURE == "IN_RESULT_FAILURE"

IN_PURPOSE == "IN_PURPOSE"

State == {NORMAL, IN_HEADING, EXPECT_PARAM_LIST, IN_PARAM_LIST, EXPECT_TITLE,
          IN_RESULT_SUCCESS, IN_RESULT_FAILURE, IN_PURPOSE}

\* the dataclass
Param(param_type, param_name, optional, summary) ==
    [param_type |-> param_type, param_name |-> param_name,
     optional |-> optional, summary |-> summary]

to_python(p) ==
    IF p.optional
    THEN p.param_name \o ": " \o "Optional[" \o p.param_type \o "]" \o " = None"
    ELSE p.param_name \o ": " \o p.param_type \o ""

\* _SCHEMAS[self.param_type] raises KeyError for a type that is no key
to_jsonrpc_raises(p) == p.param_type \notin DOMAIN _SCHEMAS

to_jsonrpc(p) ==
    LET ret == [name |-> p.param_name, summary |-> p.summary,
                schema |-> _SCHEMAS[p.param_type]]
    IN  IF ~p.optional THEN ret @@ [required |-> TRUE] ELSE ret

\* the two branches in the other order
_combine_schemas_swapped(success_schema, failure_schema) ==
    [oneOf |-> << [description |-> "on failure"] @@ failure_schema,
                  [description |-> "on success"] @@ success_schema >>]

_combine_schemas(success_schema, failure_schema) ==
    [oneOf |-> << [description |-> "on success"] @@ success_schema,
                  [description |-> "on failure"] @@ failure_schema >>]

_guess_return_schema(desc) ==
    LET folded == casefold(desc) IN
    IF desc = "true" THEN [enum |-> <<JTrue>>]
    ELSE IF desc = "false" THEN [enum |-> <<JFalse>>]
    ELSE IF desc = "null" THEN [enum |-> <<JNull>>]
    ELSE IF EndsWith(desc, "_id") THEN [title |-> desc, type |-> "integer"]
    ELSE IF desc = "[]" \/ folded = "empty array"
         THEN [type |-> "array", additionalItems |-> JFalse]
    ELSE IF folded = "empty string" THEN [enum |-> <<JString("")>>]
    ELSE IF StartsWith(folded, "list of")
         THEN [title |-> desc, type |-> "array", additionalItems |-> JTrue]
    ELSE IF StartsWith(folded, "dict")
         THEN [title |-> desc, type |-> "object", additionalProperties |-> JTrue]
    ELSE IF Contains(folded, "string") THEN [title |-> desc, type |-> "string"]
    ELSE ("title" :> desc)
         @@ ("$comment" :> "Could not guess json schema for this type")

\* [c.content for c in children]
Contents(children) == [i \in 1..Len(children) |-> children[i].content]

\* [c.content for c in t.children
\*  if c.type == "text" and not c.content.startswith(prefix)]
UsefulTexts(children, prefix) ==
    LET useful(c) == c.type = "text" /\ ~StartsWith(c.content, prefix)
    IN  Contents(SelectSeq(children, useful))

\* None is <<>>, a str s is <<s>>
_try_extract_prefixed(t, prefix) ==
    IF t.children = <<>> THEN <<>>
    ELSE IF ~StartsWith(t.content, prefix) THEN <<>>
    ELSE <<join("", UsefulTexts(t.children, prefix))>>

\* the truth value of an Optional[str]
Truthy(r) == r # <<>> /\ r[1] # ""

(***************************************************************************)
(* The methods of ExtractorStateMachine.  Each yields the instance as the  *)
(* call leaves it, the lines it printed and the exception it raised.       *)
(***************************************************************************)
Ret(self, out, exc) == [self |-> self, out |-> out, exc |-> exc]

__init__ ==
    [state |-> NORMAL,
     lines |-> <<_FILE_START>>,
     method |-> "None",
     params |-> <<>>,
     indent |-> "    ",
     url |-> "",
     orig_method |-> "<unset>",
     openrpc |-> [openrpc |-> "1.2.1",
                  info |-> [version |-> "1.2", title |-> "Kanboard"],
                  methods |-> <<>>],
     result |-> "",
     on_success |-> "",
     on_failure |-> "",
     purpose |-> ""]

\* the chain with "string" tested before "[]string"
GuessParamType_string_first(type_info) ==
    IF Contains(type_info, "string") THEN "str"
    ELSE IF Contains(type_info, "[]string") THEN "list[str]"
    ELSE IF Contains(type_info, "integer") \/ Contains(type_info, "int,") THEN "int"
    ELSE IF Contains(type_info, "boolean") THEN "bool"
    ELSE IF Contains(type_info, "dict") \/ Contains(type_info, "key/value") THEN "dict"
    ELSE IF Contains(type_info, "array") THEN "list"
    ELSE "Any"

\* the chain with "boolean" tested before "integer"
GuessParamType_bool_first(type_info) ==
    IF Contains(type_info, "[]string") THEN "list[str]"
    ELSE IF Contains(type_info, "string") THEN "str"
    ELSE IF Contains(type_info, "boolean") THEN "bool"
    ELSE IF Contains(type_info, "integer") \/ Contains(type_info, "int,") THEN "int"
    ELSE IF Contains(type_info, "dict") \/ Contains(type_info, "key/value") THEN "dict"
    ELSE IF Contains(type_info, "array") THEN "list"
    ELSE "Any"

\* the branch of the if/elif chain that type_info takes
GuessParamType(type_info) ==
    IF Contains(type_info, "[]string") THEN "list[str]"
    ELSE IF Contains(type_info, "string") THEN "str"
    ELSE IF Contains(type_info, "integer") \/ Contains(type_info, "int,") THEN "int"
    ELSE IF Contains(type_info, "boolean") THEN "bool"
    ELSE IF Contains(type_info, "dict") \/ Contains(type_info, "key/value") THEN "dict"
    ELSE IF Contains(type_info, "array") THEN "list"
    ELSE "Any"

\* "required" tested in place of "optional"
IsOptional_required(type_info) == Contains(type_info, "required")

\* is_optional
IsOptional(type_info) == Contains(type_info, "optional")

\* every child's content, whatever its type
TextNodes_unfiltered(children) == Contents(children)

\* [c.content for c in children if c.type == "text" and c.content]
TextNodes(children) ==
    LET nonempty_text(c) == c.type = "text" /\ c.content # ""
    IN  Contents(SelectSeq(children, nonempty_text))

_handle_param_children(self, parent_content, children) ==
    LET text_nodes == TextNodes(children)
    IN  IF text_nodes = <<>> THEN Ret(self, <<>>, "none")
        ELSE IF text_nodes[1] = "none" THEN Ret(self, <<>>, "none")
        ELSE LET param_name == text_nodes[1]
                 type_info == join("", Tail(text_nodes))
                 is_optional == IsOptional(type_info)
                 param_type == GuessParamType(type_info)
                 out == IF param_type = "Any"
                        THEN << "Could not figure out param type: '" \o type_info
                                \o "' from parent node '" \o parent_content \o "'" >>
                        ELSE <<>>
             IN  Ret([self EXCEPT !.params =
                          Append(@, Param(param_type, param_name, is_optional,
                                          strip(type_info)))],
                     out, "none")

_handle_param(self, t) ==
    IF t.children = <<>> THEN Ret(self, <<>>, "RuntimeError")
    ELSE IF t.content = "**none**" THEN Ret([self EXCEPT !.params = <<>>], <<>>, "none")
    ELSE _handle_param_children(self, t.content, t.children)

\* the asynchronous form declared without the arguments
StubLines_bare_async(indent, method, args, url) ==
    << "",
       indent \o "def " \o method \o "(self, " \o args \o "): ...",
       indent \o "\"\"\"" \o url \o "\"\"\"",
       "",
       indent \o "async def " \o method \o "_async(self, " \o "): ...",
       indent \o "\"\"\"" \o url \o "\"\"\"" >>

\* the six lines of one method of the stub file
StubLines(indent, method, args, url) ==
    << "",
       indent \o "def " \o method \o "(self, " \o args \o "): ...",
       indent \o "\"\"\"" \o url \o "\"\"\"",
       "",
       indent \o "async def " \o method \o "_async(self, " \o args \o "): ...",
       indent \o "\"\"\"" \o url \o "\"\"\"" >>

\* args of _finish_method
StubArgs(params) ==
    IF params # <<>>
    THEN "*, " \o join(", ", [i \in 1..Len(params) |-> to_python(params[i])])
    ELSE ""

\* the success/failure pair tested before the single result
ResultSchema_pair_first(self) ==
    IF self.on_success # ""
    THEN _combine_schemas(_guess_return_schema(self.on_success),
                          _guess_return_schema(self.on_failure))
    ELSE IF self.result # "" THEN _guess_return_schema(self.result)
    ELSE EmptyDict

\* a failure description alone is given a schema of its own
ResultSchema_failure_alone(self) ==
    IF self.result # "" THEN _guess_return_schema(self.result)
    ELSE IF self.on_success # ""
         THEN _combine_schemas(_guess_return_schema(self.on_success),
                               _guess_return_schema(self.on_failure))
    ELSE IF self.on_failure # "" THEN _guess_return_schema(self.on_failure)
    ELSE EmptyDict

\* the result schema of rpc_method
ResultSchema(self) ==
    IF self.result # "" THEN _guess_return_schema(self.result)
    ELSE IF self.on_success # ""
         THEN _combine_schemas(_guess_return_schema(self.on_success),
                               _guess_return_schema(self.on_failure))
    ELSE EmptyDict

\* rpc_method as appended to openrpc["methods"]
RpcMethod(self) ==
    LET m == [name |-> self.orig_method,
              params |-> [i \in 1..Len(self.params) |-> to_jsonrpc(self.params[i])],
              result |-> [name |-> "retval", schema |-> ResultSchema(self)],
              externalDocs |-> [url |-> self.url]]
    IN  IF self.purpose # "" THEN m @@ [summary |-> self.purpose] ELSE m

\* a list.insert(0, rpc_method) in place of the append
AppendMethod_prepend(methods, rpc_method) == <<rpc_method>> \o methods

\* openrpc["methods"].append(rpc_method)
AppendMethod(methods, rpc_method) == Append(methods, rpc_method)

\* the purpose and the parameters are kept
Reset_keeps(self) ==
    [self EXCEPT !.state = NORMAL, !.result = "", !.on_success = "", !.on_failure = ""]

\* "# reset state machine" at the end of _finish_method
Reset(self) ==
    [self EXCEPT !.state = NORMAL,
                 !.result = "",
                 !.on_success = "",
                 !.on_failure = "",
                 !.purpose = "",
                 !.params = <<>>]

_finish_method(self) ==
    LET extended == [self EXCEPT !.lines =
                        @ \o StubLines(self.indent, self.method,
                                       StubArgs(self.params), self.url)]
    IN  IF self.orig_method = "<unset>" THEN Ret(extended, <<>>, "AttributeError")
        ELSE IF \E i \in 1..Len(self.params) : to_jsonrpc_raises(self.params[i])
             THEN Ret(extended, <<>>, "KeyError")
        ELSE Ret(Reset([extended EXCEPT
                           !.openrpc.methods = AppendMethod(@, RpcMethod(self))]),
                 <<>>, "none")

\* the documentation link of a heading of the file stem
DocUrl(file_stem, content) ==
    "https://docs.kanboard.org/v1/api/" \o file_stem \o "/#" \o lower(content)

\* the label only moves to State.IN_PURPOSE, the text is awaited as a token
CapturePurpose_legacy(self, purpose) == [self EXCEPT !.state = IN_PURPOSE]

\* self.purpose = purpose, of the "Purpose:" field consumed in NORMAL
CapturePurpose(self, purpose) == [self EXCEPT !.purpose = purpose]

\* a list-close finalizes the method while the list is awaited
ExpectParamList_finishing(self, t) ==
    IF t.type = "bullet_list_open"
        THEN Ret([self EXCEPT !.state = IN_PARAM_LIST], <<>>, "none")
    ELSE IF t.type = "bullet_list_close" THEN _finish_method(self)
    ELSE Ret(self, <<>>, "none")

\* the branch of handle_token for State.EXPECT_PARAM_LIST
ExpectParamList(self, t) ==
    IF t.type = "bullet_list_open"
        THEN Ret([self EXCEPT !.state = IN_PARAM_LIST], <<>>, "none")
    ELSE Ret(self, <<>>, "none")

handle_token(self, file_stem, t) ==
    IF self.state = NORMAL THEN
        IF t.type = "heading_open"
            THEN Ret([self EXCEPT !.state = IN_HEADING], <<>>, "none")
        ELSE IF t.content = "Parameters:"
            THEN Ret([self EXCEPT !.state = EXPECT_PARAM_LIST], <<>>, "none")
        ELSE IF t.content = "Parameters: none"
            THEN Ret(self, <<>>, "none")
        ELSE IF StartsWith(t.content, "Parameters:") /\ t.children # <<>>
            THEN _handle_param_children(self, t.content, Tail(t.children))
        ELSE IF Truthy(_try_extract_prefixed(t, "Purpose:"))
            THEN Ret(CapturePurpose(self, _try_extract_prefixed(t, "Purpose:")[1]),
                     <<>>, "none")
        ELSE IF Truthy(_try_extract_prefixed(t, "Result:"))
            THEN Ret([self EXCEPT !.result = _try_extract_prefixed(t, "Result:")[1]],
                     <<>>, "none")
        ELSE IF Truthy(_try_extract_prefixed(t, "Result on success:"))
            THEN Ret([self EXCEPT
                         !.on_success = _try_extract_prefixed(t, "Result on success:")[1]],
                     <<>>, "none")
        ELSE IF Truthy(_try_extract_prefixed(t, "Result on failure:"))
            THEN Ret([self EXCEPT
                         !.on_failure = _try_extract_prefixed(t, "Result on failure:")[1]],
                     <<>>, "none")
        ELSE IF t.type = "bullet_list_close"
            THEN _finish_method(self)
        ELSE Ret(self, <<>>, "none")
    ELSE IF self.state = IN_HEADING THEN
        IF t.type = "heading_close"
            THEN Ret([self EXCEPT !.state = NORMAL], <<>>, "none")
        ELSE Ret([self EXCEPT !.orig_method = t.content,
                              !.method = to_snake(t.content),
                              !.url = DocUrl(file_stem, t.content)],
                 <<>>, "none")
    ELSE IF self.state = EXPECT_PARAM_LIST THEN ExpectParamList(self, t)
    ELSE IF self.state = IN_PARAM_LIST THEN
        IF t.type = "inline" THEN _handle_param(self, t)
        ELSE IF t.type = "bullet_list_close"
            THEN Ret([self EXCEPT !.state = NORMAL], <<>>, "none")
        ELSE Ret(self, <<>>, "none")
    ELSE IF self.state = IN_RESULT_FAILURE THEN
        IF t.type = "text"
            THEN Ret([self EXCEPT !.on_failure = t.content, !.state = NORMAL],
                     <<"failure " \o t.content>>, "none")
        ELSE IF t.type = "paragraph_close" THEN Ret(self, <<>>, "RuntimeError")
        ELSE Ret(self, <<>>, "none")
    ELSE IF self.state = IN_RESULT_SUCCESS THEN
        IF t.type = "text"
            THEN Ret([self EXCEPT !.on_success = t.content, !.state = NORMAL],
                     <<"success " \o t.content>>, "none")
        ELSE IF t.type = "paragraph_close" THEN Ret(self, <<>>, "RuntimeError")
        ELSE Ret(self, <<>>, "none")
    ELSE IF self.state = IN_PURPOSE THEN
        IF t.type = "text"
            THEN Ret([self EXCEPT !.purpose = t.content, !.state = NORMAL],
                     <<"purpose " \o t.content>>, "none")
        ELSE IF t.type = "paragraph_close" THEN Ret(self, <<>>, "RuntimeError")
        ELSE Ret(self, <<>>, "none")
    ELSE Ret(self, <<>>, "none")

inject_comment(self, comment_text) ==
    [self EXCEPT !.lines = Append(@, "\n" \o self.indent \o "# " \o comment_text)]

(***************************************************************************)
(* The __main__ block: one instance for the whole run, fed file after file.*)
(***************************************************************************)
\* the files content/en/v1/api/*_procedures.md, in the order the glob yields them
Files == <<"task_procedures", "user_procedures", "board_procedures", "link_procedures">>

\* no token handled yet
NoToken == Token("", "", <<>>)

\* the names of the methods of the documents, in the order of their headings
HeadingNames == <<"createTask", "getMe", "removeTask", "getAllTasks">>

\* the text of the headings of the documents
HeadingTexts == {HeadingText(HeadingNames[n]) : n \in 1..Len(HeadingNames)}

\* the text of the heading after n headings
NextHeading(n) == HeadingText(HeadingNames[(n % Len(HeadingNames)) + 1])

\* the tokens of the block structure
Structure == {HeadingOpen, HeadingClose, BulletListOpen, BulletListClose} \cup HeadingTexts

\* documents of headings and parameter labels
OutlineTokens == Structure \cup {ParametersLabel}

\* documents of one method with parameters in a paragraph and in a list, of a
\* known and of an unknown type, and with list items that hold no text
ParamTokens ==
    Structure \cup
    {EmptyInline, ImageInline, ParametersLabel,
     InlineParam("title", " (string, optional)"),
     ParamItem("project_id", " (integer, required)"),
     ParamItem("tags", " (mixed)")}

\* documents of one method with the markers of an empty parameter list
NoneTokens ==
    Structure \cup
    {ParametersLabel, ParametersNone, NoneItem, PlainNoneItem,
     ParamItem("project_id", " (integer, required)")}

\* the type keywords of the documentation
TypeKeywords ==
    {"string", "integer", "boolean", "dict", "array", "[]string", "list of strings"}

\* documents of one method whose parameters are described by one keyword each,
\* alone or followed by ", optional", or by a word that is no keyword
TypeTokens ==
    Structure \cup {ParametersLabel}
    \cup {ParamItem("value", k) : k \in TypeKeywords \cup {"mixed"}}
    \cup {ParamItem("value", k \o ", optional") : k \in TypeKeywords \cup {"mixed"}}

\* type descriptions that hold several of the words the chain looks for, the
\* one of the earlier branch written first or last
PriorityDescriptions ==
    {"integer or []string",
     "string or integer", "integer or string", "int, string",
     "integer or boolean", "boolean or integer", "boolean, int, dict",
     "boolean or int",
     "boolean or dict", "dict or boolean", "key/value or boolean",
     "dict of array", "array of dict", "array of key/value"}

\* documents of one method whose parameters are described by several words
PriorityTokens ==
    Structure \cup {ParametersLabel}
    \cup {ParamItem("value", d) : d \in PriorityDescriptions}

\* documents of one method with purpose and result fields
ResultTokens ==
    Structure \cup
    {Labelled("Purpose:", "Create a new task"),
     Labelled("Result:", "true"),
     Labelled("Result on success:", "task_id"),
     Labelled("Result on failure:", "false")}

\* documents of one method with a parameter label, a labelled field and a
\* parameter item
LabelTokens ==
    Structure \cup
    {ParametersLabel,
     Labelled("Purpose:", "Create a new task"),
     ParamItem("project_id", " (integer, required)")}

\* documents of one method with parameters in a paragraph and in a list
ListTokens ==
    Structure \cup
    {ParametersLabel,
     InlineParam("title", " (string, optional)"),
     ParamItem("project_id", " (integer, required)")}

\* the descriptions of parameters in the documents
Descriptions ==
    (ParamTokens \cup NoneTokens \cup TypeTokens \cup PriorityTokens) \ (Structure \cup {ParametersLabel, EmptyInline})

\* the files of a run: the runs over headings read several files, the runs
\* over the details of a method read one
Documents(c) == IF c = "outline" THEN Files ELSE <<Files[1]>>

\* the size of a run over the documents c
Limit(c) ==
    IF c = "outline"
    THEN [files |-> MaxFiles, headings |-> MaxHeadings, methods |-> MaxMethods,
          params |-> MaxParams]
    ELSE [files |-> Len(Documents(c)), headings |-> MaxDetailMethods,
          methods |-> MaxDetailMethods,
          params |-> IF c \in {"types", "priority"} THEN MaxTypedParams ELSE MaxParams]

\* the tokens of the documents of a run
Alphabet(c) ==
    CASE c = "outline" -> OutlineTokens
      [] c = "params" -> ParamTokens
      [] c = "none" -> NoneTokens
      [] c = "types" -> TypeTokens
      [] c = "results" -> ResultTokens
      [] c = "labels" -> LabelTokens
      [] c = "lists" -> ListTokens
      [] c = "priority" -> PriorityTokens

\* md.parse at the start of a file: in no heading, in no list
StartOfFile == [heading |-> "none", depth |-> 0]

\* the tokens md.parse can yield next, n headings into the run: a heading is
\* heading_open, one inline token (without children when the heading has no
\* text) and heading_close; the bullet lists are nested and closed
Yields(at, n, t) ==
    IF at.heading = "open" THEN t \in {NextHeading(n), EmptyInline}
    ELSE IF at.heading = "inline" THEN t = HeadingClose
    ELSE /\ t # HeadingClose
         /\ t \notin HeadingTexts \cup {EmptyInline}
         /\ t = BulletListOpen => at.depth < MaxDepth
         /\ t = BulletListClose => at.depth > 0

After(at, t) ==
    IF t = HeadingOpen THEN [at EXCEPT !.heading = "open"]
    ELSE IF at.heading = "open" THEN [at EXCEPT !.heading = "inline"]
    ELSE IF t = HeadingClose THEN [at EXCEPT !.heading = "none"]
    ELSE IF t = BulletListOpen THEN [at EXCEPT !.depth = @ + 1]
    ELSE IF t = BulletListClose THEN [at EXCEPT !.depth = @ - 1]
    ELSE at

\* no parameter list begun for the method in progress
NoList == [closed |-> FALSE, params |-> <<>>]

InitWith(c) ==
    /\ sm = __init__
    /\ stdout = <<>>
    /\ pc = "glob"
    /\ stem = ""
    /\ nfiles = 0
    /\ raised = "none"
    /\ corpus = c
    /\ md = StartOfFile
    /\ nitems = 0
    /\ last = [token |-> NoToken, self |-> __init__, out |-> <<>>]
    /\ headings = <<>>
    /\ none_marked = FALSE
    /\ emitted = <<>>
    /\ listed = NoList

Init == InitWith("outline")

\* for fn in glob: section = fn.stem; sm.inject_comment(section); read the file;
\* handle_file_contents: tokens = md.parse(contents)
NextFile ==
    /\ pc = "glob"
    /\ nfiles < Limit(corpus).files
    /\ nfiles < Len(Documents(corpus))
    /\ nfiles' = nfiles + 1
    /\ stem' = Documents(corpus)[nfiles + 1]
    /\ sm' = inject_comment(sm, Documents(corpus)[nfiles + 1])
    /\ pc' = "parsed"
    /\ md' = StartOfFile
    /\ last' = [token |-> NoToken, self |-> sm, out |-> <<>>]
    /\ UNCHANGED <<stdout, raised, corpus, nitems, headings, none_marked, emitted,
                   listed>>

\* t is consumed as the explicit "no parameters" marker
NoneMarker(self, t) ==
    \/ self.state = NORMAL /\ t.content = "Parameters: none"
    \/ /\ self.state = IN_PARAM_LIST
       /\ t.type = "inline"
       /\ \E k \in 1..Len(t.children) :
              /\ t.children[k] = Text("none")
              /\ \A j \in 1..(k - 1) :
                     t.children[j].type # "text" \/ t.children[j].content = ""

\* the fields of the instance but its two outputs
Accumulators(self) == [f \in DOMAIN self \ {"lines", "openrpc"} |-> self[f]]

\* one iteration of "for t in tokens: self.handle_token(stem, t)"
HandleToken(t) ==
    /\ pc \in {"parsed", "tokens"}
    /\ Len(sm.openrpc.methods) < Limit(corpus).methods
    /\ Yields(md, Len(headings), t)
    /\ t = HeadingOpen => Len(headings) < Limit(corpus).headings
    /\ md' = After(md, t)
    /\ \E r \in {handle_token(sm, stem, t)} :   \* the one call of the iteration
       LET named == sm.state = IN_HEADING /\ t.type # "heading_close"
           appended == Len(r.self.openrpc.methods) > Len(sm.openrpc.methods)
           derived == t \in Descriptions \/ Len(r.self.params) > Len(sm.params)
       IN  /\ derived => nitems < Limit(corpus).params
           /\ named => Len(headings) < Limit(corpus).headings
           /\ sm' = r.self
           /\ stdout' = stdout \o r.out
           /\ raised' = r.exc
           /\ pc' = IF r.exc = "none" THEN "tokens" ELSE "crashed"
           /\ nitems' = IF derived THEN nitems + 1 ELSE nitems
           /\ last' = [token |-> t, self |-> sm, out |-> r.out]
           /\ headings' = IF named
                          THEN Append(headings, [stem |-> stem, content |-> t.content])
                          ELSE headings
           /\ none_marked' = IF named \/ appended THEN FALSE
                             ELSE none_marked \/ NoneMarker(sm, t)
           /\ emitted' = IF appended
                         THEN Append(emitted, [heading |-> Len(headings),
                                               none |-> none_marked,
                                               at |-> Len(sm.lines),
                                               self |-> Accumulators(sm)])
                         ELSE emitted
           /\ listed' =
                  IF corpus # "lists" THEN listed
                  ELSE IF sm.state = EXPECT_PARAM_LIST /\ t.type = "bullet_list_open"
                       THEN NoList
                  ELSE IF sm.state = IN_PARAM_LIST /\ t.type = "bullet_list_close"
                       THEN [listed EXCEPT !.closed = TRUE]
                  ELSE IF sm.state = IN_PARAM_LIST /\ t.type = "inline"
                          /\ Len(r.self.params) > Len(sm.params)
                       THEN [listed EXCEPT
                                !.params = Append(@, r.self.params[Len(r.self.params)])]
                  ELSE IF last.token.type = "bullet_list_close"
                          /\ last.self.state = NORMAL
                          /\ Len(sm.openrpc.methods) > Len(last.self.openrpc.methods)
                       THEN NoList
                  ELSE listed
    /\ UNCHANGED <<stem, nfiles, corpus>>

\* the token loop of handle_file_contents ends
EndOfFile ==
    /\ pc \in {"parsed", "tokens"}
    /\ md = StartOfFile
    /\ pc' = "glob"
    /\ UNCHANGED <<sm, stdout, stem, nfiles, raised, corpus, md, nitems, last, headings,
                   none_marked, emitted, listed>>

\* the glob is exhausted: stubs.pyi and rpc.json are written
WriteOutputs ==
    /\ pc = "glob"
    /\ pc' = "done"
    /\ UNCHANGED <<sm, stdout, stem, nfiles, raised, corpus, md, nitems, last, headings,
                   none_marked, emitted, listed>>

Next ==
    \/ NextFile
    \/ \E t \in Alphabet(corpus) : HandleToken(t)
    \/ EndOfFile
    \/ WriteOutputs

Spec == Init /\ [][Next]_vars

SpecParams == InitWith("params") /\ [][Next]_vars

SpecNone == InitWith("none") /\ [][Next]_vars

SpecTypes == InitWith("types") /\ [][Next]_vars

SpecResults == InitWith("results") /\ [][Next]_vars

SpecLabels == InitWith("labels") /\ [][Next]_vars

SpecLists == InitWith("lists") /\ [][Next]_vars

SpecPriority == InitWith("priority") /\ [][Next]_vars

(***************************************************************************)
(* Properties.                                                             *)
(***************************************************************************)
Methods == sm.openrpc.methods

\* C1: a method is finalized at most once: no two Method Records of
\* method_documents come from the same heading, however many list-close tokens
\* are consumed in NORMAL between that heading and the next.
C1_FinalizedAtMostOnce ==
    \A i, j \in 1..Len(emitted) : i < j => emitted[i].heading # emitted[j].heading

\* the heading a record came from
HeadingOf(i) == headings[emitted[i].heading]

\* the place of a file in the iteration of the glob
FileNo(file_stem) == CHOOSE n \in 1..Len(Files) : Files[n] = file_stem

\* C5: the method list preserves source order: each Method Record carries the
\* name and the link of the heading it came from, and the records stand in the
\* order in which their headings were consumed (files in iteration order,
\* then heading order within a file); later tokens never reorder them.
C5_SourceOrder ==
    /\ Len(emitted) = Len(Methods)
    /\ \A i \in 1..Len(Methods) :
          /\ emitted[i].heading \in 1..Len(headings)
          /\ Methods[i].name = HeadingOf(i).content
          /\ Methods[i].externalDocs.url = DocUrl(HeadingOf(i).stem, HeadingOf(i).content)
    /\ \A i, j \in 1..Len(Methods) :
          i < j => /\ emitted[i].heading <= emitted[j].heading
                   /\ FileNo(HeadingOf(i).stem) <= FileNo(HeadingOf(j).stem)

\* two records of different headings, of two files
C5_Witness ==
    /\ Len(Methods) = 2
    /\ Methods[1].name # Methods[2].name
    /\ HeadingOf(1).stem # HeadingOf(2).stem

\* C9: the state is reset per document: when the first token of a file is
\* about to be handled the state is NORMAL.
C9_ResetPerDocument == pc = "parsed" => sm.state = NORMAL

(***************************************************************************)
(* Reading the stub lines back.                                            *)
(***************************************************************************)
\* the first place of sub in s, 0 when there is none
IndexOf(s, sub) ==
    IF Contains(s, sub)
    THEN CHOOSE i \in 1..Len(s) :
             /\ SubSeq(s, i, i + Len(sub) - 1) = sub
             /\ \A j \in 1..(i - 1) : SubSeq(s, j, j + Len(sub) - 1) # sub
    ELSE 0

RECURSIVE SplitOn(_, _)
\* s.split(sep)
SplitOn(s, sep) ==
    LET i == IndexOf(s, sep)
    IN  IF i = 0 THEN <<s>>
        ELSE <<SubSeq(s, 1, i - 1)>> \o SplitOn(SubSeq(s, i + Len(sep), Len(s)), sep)

\* a declaration line is "<indent>[async ]def <name>(self, <args>): ..."
IsDeclaration(line, keyword) ==
    /\ StartsWith(line, "    " \o keyword)
    /\ Contains(line, "(self, ")
    /\ EndsWith(line, "): ...")

DeclaredName(line, keyword) ==
    SubSeq(line, Len("    " \o keyword) + 1, IndexOf(line, "(self, ") - 1)

ArgList(line) ==
    SubSeq(line, IndexOf(line, "(self, ") + Len("(self, "), Len(line) - Len("): ..."))

\* the arguments of a declaration, without the leading "*"
DeclaredArgs(line) == IF ArgList(line) = "" THEN <<>> ELSE Tail(SplitOn(ArgList(line), ", "))

\* a documentation-link line is "<indent>"""<url>""""
LinkLine(link) == "    \"\"\"" \o link \o "\"\"\""

\* the six lines after the first `at` lines declare one method, in both forms
\* with the same arguments, one per parameter of params and in their order,
\* each form followed by the same documentation link
DeclarationPair(at, params, link) ==
    /\ Len(sm.lines) >= at + 6
    /\ sm.lines[at + 1] = "" /\ sm.lines[at + 4] = ""
    /\ IsDeclaration(sm.lines[at + 2], "def ")
    /\ IsDeclaration(sm.lines[at + 5], "async def ")
    /\ DeclaredName(sm.lines[at + 5], "async def ")
           = DeclaredName(sm.lines[at + 2], "def ") \o "_async"
    /\ ArgList(sm.lines[at + 5]) = ArgList(sm.lines[at + 2])
    /\ Len(DeclaredArgs(sm.lines[at + 2])) = Len(params)
    /\ \A k \in 1..Len(params) :
           StartsWith(DeclaredArgs(sm.lines[at + 2])[k], params[k].param_name \o ": ")
    /\ sm.lines[at + 3] = LinkLine(link)
    /\ sm.lines[at + 6] = LinkLine(link)

\* the last token was a list-close consumed in NORMAL: a finalize
Finalizing == last.token.type = "bullet_list_close" /\ last.self.state = NORMAL

\* the finalize of the last token appended a Method Record
Recorded == Finalizing /\ Len(Methods) = Len(last.self.openrpc.methods) + 1

\* the finalize of the last token raised after it had appended the stub lines
FinalizeRaised == Finalizing /\ raised \in {"AttributeError", "KeyError"}

\* C2: an unrecognized parameter type is not fatal: the list-close consumed in
\* NORMAL with a parameter of unknown type accumulated (and a heading seen)
\* raises nothing and appends a Method Record that holds every accumulated
\* parameter with a schema, and the run goes on.
C2_UnknownTypeNotFatal ==
    (/\ Finalizing
     /\ last.self.orig_method # "<unset>"
     /\ \E k \in 1..Len(last.self.params) : last.self.params[k].param_type = "Any")
    => /\ raised = "none"
       /\ pc # "crashed"
       /\ Len(Methods) = Len(last.self.openrpc.methods) + 1
       /\ LET record == Methods[Len(Methods)]
          IN  /\ Len(record.params) = Len(last.self.params)
              /\ \A k \in 1..Len(record.params) :
                     /\ record.params[k].name = last.self.params[k].param_name
                     /\ "schema" \in DOMAIN record.params[k]

\* C3: a method whose parameters were declared by the explicit none marker is
\* finalized with an empty parameter list in its Method Record and an empty
\* argument list in both declarations.
C3_NoneMarkerMeansNoParams ==
    \A i \in 1..Len(emitted) :
        emitted[i].none =>
            /\ Methods[i].params = <<>>
            /\ ArgList(sm.lines[emitted[i].at + 2]) = ""
            /\ ArgList(sm.lines[emitted[i].at + 5]) = ""

\* C8: every finalize appends one synchronous and one asynchronous declaration
\* of the method with identical argument lists (the accumulated parameters in
\* order), each followed by a documentation-link line; the links are the
\* documentation link of the Method Record the finalize appended.  Nothing
\* else is appended to stub_lines but the start of the file and one comment
\* per file.
C8_DeclarationPairs ==
    /\ Finalizing =>
           /\ SubSeq(sm.lines, 1, Len(last.self.lines)) = last.self.lines
           /\ Len(sm.lines) = Len(last.self.lines) + 6
           /\ DeclarationPair(Len(last.self.lines), last.self.params,
                              IF Recorded THEN Methods[Len(Methods)].externalDocs.url
                              ELSE last.self.url)
    /\ Len(sm.lines) =
           1 + nfiles + 6 * (Len(emitted) + (IF FinalizeRaised THEN 1 ELSE 0))

\* a method of two parameters has just been finalized
C8_Witness == Recorded /\ Len(last.self.params) = 2

\* an inline token with no usable text span
NoUsableText(t) ==
    /\ t.type = "inline"
    /\ \A k \in 1..Len(t.children) :
           t.children[k].type # "text" \/ t.children[k].content = ""

\* C10 as stated: in IN_PARAM_LIST an inline token with no usable text spans,
\* without children or without a non-empty text child, is skipped: nothing is
\* raised and the instance is left as it was, outputs included.
C10_NoUsableTextSkipped ==
    (last.self.state = IN_PARAM_LIST /\ NoUsableText(last.token))
    => (raised = "none" /\ pc # "crashed" /\ sm = last.self)

\* C10 as amended: in IN_PARAM_LIST an inline token that has children, none of
\* them a non-empty text span, and whose content is not "**none**", is
\* skipped: nothing is raised, no parameter is added, the state stays
\* IN_PARAM_LIST and both outputs are unchanged.
C10_TextlessInlineSkipped ==
    (/\ last.self.state = IN_PARAM_LIST
     /\ NoUsableText(last.token)
     /\ last.token.children # <<>>
     /\ last.token.content # "**none**")
    => (raised = "none" /\ pc # "crashed" /\ sm = last.self /\ last.out = <<>>)

\* an inline token whose only child is an image was consumed in IN_PARAM_LIST
\* and the token loop goes on
C10_Witness ==
    /\ last.self.state = IN_PARAM_LIST
    /\ last.token = ImageInline
    /\ pc = "tokens"

\* the declaration of a parameter shows a default value
ShowsDefault(arg) == EndsWith(arg, " = None")

\* a parameter is declared with a default and entered without the required
\* flag if its description contains "optional", and declared without a default
\* and entered with the flag otherwise
OptionalShown(p, arg) == ShowsDefault(arg) <=> Contains(p.summary, "optional")

OptionalEntered(p, entry) ==
    IF Contains(p.summary, "optional")
    THEN "required" \notin DOMAIN entry
    ELSE "required" \in DOMAIN entry /\ entry.required = TRUE

\* C4: for every accumulated parameter, whichever type branch matched: if its
\* type description contains "optional", the declarations a finalize emits show
\* a default value for it and its entry in the Method Record has no required
\* flag; otherwise the declarations show no default and the flag is present.
\* (A finalize that raises has emitted the declarations and no record.)
C4_OptionalIffDefault ==
    Finalizing =>
        \E sync \in {DeclaredArgs(sm.lines[Len(last.self.lines) + 2])},
           async \in {DeclaredArgs(sm.lines[Len(last.self.lines) + 5])} :
            LET params == last.self.params
            IN  /\ Len(sync) = Len(params)
                /\ Len(async) = Len(params)
                /\ \A k \in 1..Len(params) :
                       /\ OptionalShown(params[k], sync[k])
                       /\ OptionalShown(params[k], async[k])
                /\ Recorded =>
                       /\ Len(Methods[Len(Methods)].params) = Len(params)
                       /\ \A k \in 1..Len(params) :
                              OptionalEntered(params[k], Methods[Len(Methods)].params[k])

\* a method with a parameter described as "boolean, optional" has just been
\* finalized
C4_Witness ==
    /\ Recorded
    /\ Len(last.self.params) = 1
    /\ last.self.params[1].summary = "boolean, optional"
    /\ last.self.params[1].param_type = "bool"

\* a parameter item whose type description is the keyword alone was consumed
\* in IN_PARAM_LIST
KeywordAlone(keyword) ==
    last.self.state = IN_PARAM_LIST /\ last.token = ParamItem("value", keyword)

\* the parameter derived from the last token has the schema and no diagnostic
\* was printed
DerivedAs(schema) ==
    /\ Len(sm.params) = Len(last.self.params) + 1
    /\ to_jsonrpc_raises(sm.params[Len(sm.params)]) = FALSE
    /\ to_jsonrpc(sm.params[Len(sm.params)]).schema = schema
    /\ last.out = <<>>

ListOfStringsSchema == [type |-> "array", additionalItems |-> [type |-> "string"]]

\* C6 as stated: a type description that is one of the keywords "string",
\* "integer", "boolean", "dict", "array", "list of strings" alone gives the
\* type string, integer, boolean, object, array, list-of-strings respectively,
\* and no diagnostic.
C6_KeywordRoundTrip ==
    /\ KeywordAlone("string") => DerivedAs([type |-> "string"])
    /\ KeywordAlone("integer") => DerivedAs([type |-> "integer"])
    /\ KeywordAlone("boolean") => DerivedAs([type |-> "boolean"])
    /\ KeywordAlone("dict") => DerivedAs([type |-> "object"])
    /\ KeywordAlone("array") => DerivedAs([type |-> "array", additionalItems |-> JTrue])
    /\ KeywordAlone("list of strings") => DerivedAs(ListOfStringsSchema)

\* C6 as amended: the keyword of the list-of-strings type is "[]string".
C6_KeywordRoundTripAmended ==
    /\ KeywordAlone("string") => DerivedAs([type |-> "string"])
    /\ KeywordAlone("integer") => DerivedAs([type |-> "integer"])
    /\ KeywordAlone("boolean") => DerivedAs([type |-> "boolean"])
    /\ KeywordAlone("dict") => DerivedAs([type |-> "object"])
    /\ KeywordAlone("array") => DerivedAs([type |-> "array", additionalItems |-> JTrue])
    /\ KeywordAlone("[]string") => DerivedAs(ListOfStringsSchema)

\* the item described as "[]string" was consumed and gave a list of strings
C6_Witness ==
    /\ KeywordAlone("[]string")
    /\ sm.params # <<>>
    /\ sm.params[Len(sm.params)].param_type = "list[str]"

\* C7: a method finalized with a success description and no single result
\* description has a one-of result schema of exactly two branches, success
\* first, each the result heuristic applied to its own description and tagged
\* "on success" / "on failure"; success "task_id" with failure "false" gives an
\* integer schema titled "task_id" and a singleton-false schema.
C7_SuccessFailureOneOf ==
    \A i \in 1..Len(emitted) :
        LET before == emitted[i].self
            schema == Methods[i].result.schema
        IN  (before.result = "" /\ before.on_success # "") =>
                /\ DOMAIN schema = {"oneOf"}
                /\ Len(schema.oneOf) = 2
                /\ schema.oneOf[1] =
                       _guess_return_schema(before.on_success)
                           @@ [description |-> "on success"]
                /\ schema.oneOf[1].description = "on success"
                /\ schema.oneOf[2] =
                       _guess_return_schema(before.on_failure)
                           @@ [description |-> "on failure"]
                /\ schema.oneOf[2].description = "on failure"
                /\ (before.on_success = "task_id" /\ before.on_failure = "false") =>
                       /\ schema.oneOf[1] = [title |-> "task_id", type |-> "integer",
                                             description |-> "on success"]
                       /\ schema.oneOf[2] = [enum |-> <<JFalse>>,
                                             description |-> "on failure"]

\* a method with success "task_id", failure "false" and no single result has
\* been finalized
C7_Witness ==
    \E i \in 1..Len(emitted) :
        /\ emitted[i].self.result = ""
        /\ emitted[i].self.on_success = "task_id"
        /\ emitted[i].self.on_failure = "false"

\* C11: after a "Parameters:" label the state remains EXPECT_PARAM_LIST until a
\* list-begins token arrives: every other token consumed in EXPECT_PARAM_LIST
\* (heading tokens, labelled fields and list-close tokens included) raises
\* nothing, prints nothing and leaves the instance as it was: the state, the
\* method name, the accumulators and both outputs; so no Method Record is
\* appended while no list begins.
C11_AwaitsListBegin ==
    (/\ last.self.state = EXPECT_PARAM_LIST
     /\ last.token # NoToken
     /\ last.token.type # "bullet_list_open")
    => (/\ raised = "none"
        /\ pc # "crashed"
        /\ sm = last.self
        /\ sm.state = EXPECT_PARAM_LIST
        /\ last.out = <<>>)

\* a list-close was consumed in EXPECT_PARAM_LIST, after a heading and a
\* labelled field of the method
C11_Witness ==
    /\ last.self.state = EXPECT_PARAM_LIST
    /\ last.token = BulletListClose
    /\ sm.orig_method = "createTask"
    /\ sm.purpose # ""
    /\ pc = "tokens"

\* the name an argument of a declaration is declared with
ArgName(arg) == SubSeq(arg, 1, IndexOf(arg, ": ") - 1)

\* C12: parameter names are unique within a method: no two parameters of a
\* Method Record have the same name, and no two arguments of the declarations
\* a finalize emits have the same name.
C12_UniqueParameterNames ==
    /\ \A i \in 1..Len(Methods) :
           \A j, k \in 1..Len(Methods[i].params) :
               j < k => Methods[i].params[j].name # Methods[i].params[k].name
    /\ Finalizing =>
           \E sync \in {DeclaredArgs(sm.lines[Len(last.self.lines) + 2])} :
               \A j, k \in 1..Len(sync) : j < k => ArgName(sync[j]) # ArgName(sync[k])

\* the states of the finalized grammar
LiveStates == {NORMAL, IN_HEADING, EXPECT_PARAM_LIST, IN_PARAM_LIST}

\* C13: the state is always one of NORMAL, IN_HEADING, EXPECT_PARAM_LIST and
\* IN_PARAM_LIST: no token is ever consumed in EXPECT_TITLE, IN_RESULT_SUCCESS,
\* IN_RESULT_FAILURE or IN_PURPOSE, so the failures of the legacy label-capture
\* path cannot be raised.
C13_LegacyStatesUnreachable ==
    /\ sm.state \in LiveStates
    /\ last.self.state \in LiveStates

\* the "Purpose:" field was consumed in NORMAL: its text is captured and the
\* state is NORMAL
C13_Witness ==
    /\ last.token = Labelled("Purpose:", "Create a new task")
    /\ last.self.state = NORMAL
    /\ sm.purpose = "Create a new task"
    /\ sm.state = NORMAL

\* C14: a list-close consumed in IN_PARAM_LIST only returns the state to NORMAL
\* and emits nothing; the record of the method is appended by a later
\* list-close consumed in NORMAL, and the parameter list of that record is
\* exactly the parameters derived from the items of the list, in the order the
\* items were consumed.
C14_RecordHoldsListItems ==
    /\ (last.self.state = IN_PARAM_LIST /\ last.token = BulletListClose) =>
           /\ sm = [last.self EXCEPT !.state = NORMAL]
           /\ last.out = <<>>
           /\ raised = "none"
    /\ (Recorded /\ listed.closed) =>
           Methods[Len(Methods)].params =
               [k \in 1..Len(listed.params) |-> to_jsonrpc(listed.params[k])]

\* C15: when list-begins is consumed in EXPECT_PARAM_LIST the parameter
\* accumulator is reset: right after the transition to IN_PARAM_LIST the
\* accumulator is empty, so parameters accumulated earlier are not carried
\* into the method of the list.
C15_ListBeginResets ==
    (last.self.state = EXPECT_PARAM_LIST /\ last.token = BulletListOpen)
    => (sm.state = IN_PARAM_LIST /\ sm.params = <<>>)

TypeOfRank == <<"list[str]", "str", "int", "bool", "dict", "list">>

\* the words that select each type, the word for int given as a parameter
MarkersWith(int_word) ==
    <<{"[]string"}, {"string"}, {"integer", int_word}, {"boolean"},
      {"dict", "key/value"}, {"array"}>>

\* the ranks whose words occur in the description
Ranks(desc, markers) ==
    {k \in 1..Len(markers) : \E m \in markers[k] : Contains(desc, m)}

\* the least rank of a non-empty set of ranks
Highest(ranks) == CHOOSE k \in ranks : \A j \in ranks : k <= j

\* a parameter item with the description was consumed in IN_PARAM_LIST
Described(desc) ==
    last.self.state = IN_PARAM_LIST /\ last.token = ParamItem("value", desc)

\* the parameter derived from the last token has the type of the highest rank
\* that the markers find in the description
TypedByHighest(desc, markers) ==
    /\ Len(sm.params) = Len(last.self.params) + 1
    /\ sm.params[Len(sm.params)].param_type = TypeOfRank[Highest(Ranks(desc, markers))]

\* C17 as stated: among the type words a description holds, the type is that
\* of the first in the order "[]string", "string", "integer" or the bare word
\* "int", "boolean", "dict" or "key/value", "array".
C17_PriorityOrder ==
    \A desc \in PriorityDescriptions :
        (Described(desc) /\ Ranks(desc, MarkersWith("int")) # {})
            => TypedByHighest(desc, MarkersWith("int"))

\* C17 as amended: the short word for the integer type is "int" followed by a
\* comma; "int" without the comma is no type word.
C17_PriorityOrderAmended ==
    \A desc \in PriorityDescriptions :
        (Described(desc) /\ Ranks(desc, MarkersWith("int,")) # {})
            => TypedByHighest(desc, MarkersWith("int,"))

\* the item described as "boolean, int, dict" was consumed and gave an int
C17_Witness ==
    /\ Described("boolean, int, dict")
    /\ Len(sm.params) = Len(last.self.params) + 1
    /\ sm.params[Len(sm.params)].param_type = "int"

\* the stub lines that are synchronous declarations
SyncDeclarations == {i \in 1..Len(sm.lines) : IsDeclaration(sm.lines[i], "def ")}

\* C18: in every reachable state, the state left by a finalize that raises
\* included, the stub lines hold as many synchronous declarations as the
\* document holds Method Records.
C18_OutputsInStep == Cardinality(SyncDeclarations) = Len(Methods)

\* the texts a Method Record holds outside its result schema
RecordTexts(record) ==
    {record.name, record.externalDocs.url}
    \cup (IF "summary" \in DOMAIN record THEN {record.summary} ELSE {})
    \cup {record.params[k].name : k \in 1..Len(record.params)}
    \cup {record.params[k].summary : k \in 1..Len(record.params)}

\* the keys of a Method Record
RecordKeys == {"name", "params", "result", "externalDocs", "summary"}

\* C19: a finalize that finds a single result description and a success and a
\* failure description gives the record the schema of the result heuristic
\* applied to the single result description alone: no one-of, and neither the
\* success nor the failure description anywhere in the record.
C19_SingleResultWins ==
    (/\ Recorded
     /\ last.self.result # ""
     /\ last.self.on_success # ""
     /\ last.self.on_failure # "")
    => LET record == Methods[Len(Methods)]
       IN  /\ record.result = [name |-> "retval",
                               schema |-> _guess_return_schema(last.self.result)]
           /\ "oneOf" \notin DOMAIN record.result.schema
           /\ DOMAIN record \subseteq RecordKeys
           /\ last.self.on_success \notin RecordTexts(record)
           /\ last.self.on_failure \notin RecordTexts(record)

\* a method with result "true", success "task_id" and failure "false" has just
\* been finalized
C19_Witness ==
    /\ Recorded
    /\ last.self.result = "true"
    /\ last.self.on_success = "task_id"
    /\ last.self.on_failure = "false"
    /\ Methods[Len(Methods)].result.schema = [enum |-> <<JTrue>>]

\* C20: a finalize that finds a failure description and neither a single
\* result nor a success description gives the record the empty schema, the
\* failure description is nowhere in the record, and it is cleared.
C20_FailureAloneIgnored ==
    (/\ Recorded
     /\ last.self.result = ""
     /\ last.self.on_success = ""
     /\ last.self.on_failure # "")
    => LET record == Methods[Len(Methods)]
       IN  /\ record.result = [name |-> "retval", schema |-> EmptyDict]
           /\ DOMAIN record.result.schema = {}
           /\ DOMAIN record \subseteq RecordKeys
           /\ last.self.on_failure \notin RecordTexts(record)
           /\ sm.on_failure = ""

\* a method with the failure "false" and no result or success description has
\* just been finalized
C20_Witness ==
    /\ Recorded
    /\ last.self.result = ""
    /\ last.self.on_success = ""
    /\ last.self.on_failure = "false"

====
